---- MODULE Spec2Model ----
(***************************************************************************)
(* Model of phonemizer/punctuation.py: the Punctuation class, which hides  *)
(* punctuation marks from a phonemization backend (preserve), puts them    *)
(* back afterwards (restore), or deletes them (remove).                    *)
(*                                                                         *)
(* A Python str is modelled as a sequence of one-character strings, a list *)
(* of str as a sequence of such sequences, a _MarkIndex named tuple as a   *)
(* record [index, mark, position].                                         *)
(***************************************************************************)
EXTENDS Integers, Sequences, FiniteSets, TLC

(***************************************************************************)
(* Bounds of the model.                                                    *)
(***************************************************************************)
\* Size of an input text: the sum over its lines of (length of the line + 1).
MaxSize == 5
\* Number of successive applications of remove.
MaxApply == 2
\* Arguments of a direct call of restore: number of chunks, of mark records,
\* and the largest line index a record carries.
MaxChunks == 2
MaxMarks == 2
MaxIndex == 1
\* Length of a string given to the marks setter.
MaxCfgLen == 2
\* A caller deep in the call stack leaves at most this many frames free.
MaxRoom == 3

(***************************************************************************)
(* Characters.                                                             *)
(***************************************************************************)
\* The characters str.strip(), str.rstrip() and the regex class \s remove or
\* match (those the model's inputs can hold).
Whitespace == {" ", "\t", "\n", "\r"}

\* The regex class \d.
Digits == {"0", "1", "2", "3", "4", "5", "6", "7", "8", "9"}

\* The two placeholders of _preserve_line.
CommaPlaceholder == "§"
PeriodPlaceholder == "#"

\* The characters the enumerated input lines are made of: a letter, a space, a
\* digit, the two separators _preserve_line protects, and its two placeholders.
Alphabet == {"a", " ", "1", ",", ".", "#", "§"}

\* The mark sets the enumerated inputs are configured with.
MarkSets == {{",", "."}, {",", " "}, {"#"}}

(***************************************************************************)
(* str helpers.                                                            *)
(***************************************************************************)
\* str.startswith
StartsWith(s, p) == Len(p) <= Len(s) /\ SubSeq(s, 1, Len(p)) = p

\* str.endswith
EndsWith(s, p) == Len(p) <= Len(s) /\ SubSeq(s, Len(s) - Len(p) + 1, Len(s)) = p

\* str.rstrip(): drop the trailing whitespace.
RECURSIVE rstrip(_)
rstrip(s) ==
  IF s # <<>> /\ s[Len(s)] \in Whitespace THEN rstrip(SubSeq(s, 1, Len(s) - 1)) ELSE s

\* str.lstrip(): drop the leading whitespace.
RECURSIVE lstrip(_)
lstrip(s) ==
  IF s # <<>> /\ s[1] \in Whitespace THEN lstrip(SubSeq(s, 2, Len(s))) ELSE s

\* str.strip()
strip(s) == lstrip(rstrip(s))

\* str.find(sub) + 1: the first position where sub occurs in s, 0 when none.
Find(s, sub) ==
  LET hits == {p \in 1..(Len(s) - Len(sub) + 1) : SubSeq(s, p, p + Len(sub) - 1) = sub}
  IN IF hits = {} THEN 0 ELSE CHOOSE p \in hits : \A q \in hits : p <= q

\* re.sub(r"<from>", "<to>", s) for a one-character literal pattern.
ReplaceChar(s, from, to) == [i \in 1..Len(s) |-> IF s[i] = from THEN to ELSE s[i]]

\* "".join(parts)
RECURSIVE Join(_)
Join(parts) == IF parts = <<>> THEN <<>> ELSE Head(parts) \o Join(Tail(parts))

(***************************************************************************)
(* The matching rule the marks setter compiles: one or more repetitions of *)
(* optional whitespace, one or more marks, optional whitespace.            *)
(***************************************************************************)
\* A character the rule can consume: whitespace or a mark of the class M.
RunChar(c, M) == c \in Whitespace \/ c \in M

\* The first position from i on whose character the rule cannot consume
\* (Len(line) + 1 when there is none).
RECURSIVE RunEnd(_, _, _)
RunEnd(line, M, i) ==
  IF i <= Len(line) /\ RunChar(line[i], M) THEN RunEnd(line, M, i + 1) ELSE i

\* list(re.finditer(self._marks_re, line)) from position i on: the leftmost,
\* greedy, non-overlapping matches as [start, end] (inclusive positions).  A match
\* at i consumes the whole stretch of whitespace and marks that starts there, and
\* exists only when the stretch holds a mark.
RECURSIVE finditer(_, _, _)
finditer(line, M, i) ==
  IF i > Len(line) THEN <<>>
  ELSE IF ~RunChar(line[i], M) THEN finditer(line, M, i + 1)
  ELSE LET j == RunEnd(line, M, i)
       IN IF \E k \in i..(j - 1) : line[k] \in M
          THEN <<[start |-> i, end |-> j - 1]>> \o finditer(line, M, j)
          ELSE finditer(line, M, j)

\* match.group() without the whitespace around the marks (a slip the claim on
\* the records' text must detect).
groupStripped(line, m) == strip(SubSeq(line, m.start, m.end))

\* match.group()
group(line, m) == SubSeq(line, m.start, m.end)

(***************************************************************************)
(* remove.                                                                 *)
(***************************************************************************)
\* re.sub(self._marks_re, " ", text): every match replaced by one space.
RECURSIVE SubMatches(_, _, _)
SubMatches(line, matches, i) ==
  IF matches = <<>> THEN SubSeq(line, i, Len(line))
  ELSE SubSeq(line, i, Head(matches).start - 1) \o <<" ">>
       \o SubMatches(line, Tail(matches), Head(matches).end + 1)

\* The inner function aux of remove, without the final strip (a slip the
\* idempotence claim must detect).
auxNoStrip(line, M) == SubMatches(line, finditer(line, M, 1), 1)

\* The inner function aux of remove.
aux(line, M) == strip(SubMatches(line, finditer(line, M, 1), 1))

\* remove(text): a str gives a str, a list gives the list of its lines' aux.
\* The argument is [kind |-> "str", val |-> line] or [kind |-> "list", val |-> lines].
remove(t, M) ==
  IF t.kind = "str" THEN [kind |-> "str", val |-> aux(t.val, M)]
  ELSE [kind |-> "list", val |-> [i \in 1..Len(t.val) |-> aux(t.val[i], M)]]

(***************************************************************************)
(* preserve.                                                               *)
(***************************************************************************)
\* The _MarkIndex named tuple.
MarkIndex(index, mark, position) ==
  [index |-> index, mark |-> mark, position |-> position]

\* re.sub(r"\d[sep]\d", lambda x: x[0][0] + ph + x[0][2], line) from position
\* i on: the matches are taken left to right and do not overlap, so the scan
\* resumes after the second digit of a match.
RECURSIVE SubDigitSep(_, _, _, _)
SubDigitSep(line, sep, ph, i) ==
  IF i > Len(line) THEN <<>>
  ELSE IF i + 2 <= Len(line) /\ line[i] \in Digits /\ line[i + 1] = sep
          /\ line[i + 2] \in Digits
       THEN <<line[i], ph, line[i + 2]>> \o SubDigitSep(line, sep, ph, i + 3)
       ELSE <<line[i]>> \o SubDigitSep(line, sep, ph, i + 1)

\* The two substitutions that open _preserve_line.
Escape(line) ==
  SubDigitSep(SubDigitSep(line, ",", CommaPlaceholder, 1), ".", PeriodPlaceholder, 1)

\* The two substitutions _preserve_line applies to what it returns.
Unescape(s) == ReplaceChar(ReplaceChar(s, CommaPlaceholder, ","), PeriodPlaceholder, ".")

\* The position of the k-th of n matches, with the test on the first match
\* dropped (a slip the claims on positions must detect).
PositionAnyBegin(k, n, line, g) ==
  IF StartsWith(line, g) THEN "B"
  ELSE IF k = n /\ EndsWith(line, g) THEN "E"
  ELSE "I"

\* The position of the k-th of n matches, whose text is g: begin (B), end (E) or
\* in the middle (I).  match == matches[0] compares two match objects, which are
\* equal only when they are the same element of the list.
Position(k, n, line, g) ==
  IF k = 1 /\ StartsWith(line, g) THEN "B"
  ELSE IF k = n /\ EndsWith(line, g) THEN "E"
  ELSE "I"

\* The loop over the marks that splits the line, then preserved_line + [line]:
\* line.split(mark) cuts at every occurrence of the mark's text, the prefix is
\* what precedes the first one and the suffix, joined again, all that follows it.
RECURSIVE SplitLine(_, _, _)
SplitLine(line, marks, k) ==
  IF k > Len(marks) THEN <<line>>
  ELSE LET p == Find(line, marks[k].mark)
       IN IF p = 0 THEN <<line>> \o SplitLine(<<>>, marks, k + 1)
          ELSE <<SubSeq(line, 1, p - 1)>>
               \o SplitLine(SubSeq(line, p + Len(marks[k].mark), Len(line)), marks, k + 1)

\* _preserve_line(line, num): the pair (chunks, mark records) as [text, marks].
\* (The print that opens the function writes to stdout and changes no state.)
preserve_line(line0, num, M) ==
  LET line == Escape(line0)
      matches == finditer(line, M, 1)
  IN IF matches = <<>> THEN [text |-> <<Unescape(line)>>, marks |-> <<>>]
     ELSE IF Len(matches) = 1 /\ group(line, matches[1]) = line
     THEN [text |-> <<>>, marks |-> <<MarkIndex(num, line, "A")>>]
     ELSE LET marks == [k \in 1..Len(matches) |->
                          MarkIndex(num, group(line, matches[k]),
                                    Position(k, Len(matches), line, group(line, matches[k])))]
              res == SplitLine(line, marks, 1)
          IN [text |-> [k \in 1..Len(res) |-> Unescape(res[k])], marks |-> marks]

\* [line for line in preserved_text if line]
RECURSIVE NonEmpty(_)
NonEmpty(lines) ==
  IF lines = <<>> THEN <<>>
  ELSE IF Head(lines) = <<>> THEN NonEmpty(Tail(lines))
  ELSE <<Head(lines)>> \o NonEmpty(Tail(lines))

(***************************************************************************)
(* restore.                                                                *)
(***************************************************************************)
\* text[0] = text[0].rstrip(), the first statement of _restore_current.
Stripped(text) == [text EXCEPT ![1] = rstrip(text[1])]

\* The begin branch of _restore_current, t being the text after its first
\* statement: the mark goes before the first chunk, and num stays.
restore_begin(current, t, marks, num, out) ==
  [text |-> <<current.mark \o t[1]>> \o Tail(t), marks |-> Tail(marks),
   num |-> num, out |-> out]

\* _restore_current(current, text, marks, num), called with the output lines
\* already returned by the enclosing calls: the arguments of the recursive call
\* of _restore_aux it ends with, and the output lines returned so far.
restore_current(current, text, marks, num, out) ==
  LET t == Stripped(text)
  IN CASE current.position = "B" -> restore_begin(current, t, marks, num, out)
       [] current.position = "E" ->
            [text |-> Tail(t), marks |-> Tail(marks),
             num |-> num + 1, out |-> Append(out, t[1] \o current.mark)]
       [] current.position = "A" ->
            [text |-> t, marks |-> Tail(marks),
             num |-> num + 1, out |-> Append(out, current.mark)]
       [] OTHER ->
            IF Len(t) = 1
            THEN [text |-> <<t[1] \o current.mark>>, marks |-> Tail(marks),
                  num |-> num, out |-> out]
            ELSE [text |-> <<t[1] \o current.mark \o t[2]>> \o SubSeq(t, 3, Len(t)),
                  marks |-> Tail(marks), num |-> num, out |-> out]

\* "".join(m.mark for m in marks)
JoinMarks(marks) == Join([k \in 1..Len(marks) |-> marks[k].mark])

\* The depth of the call stack at which the interpreter raises RecursionError
\* instead of entering one more frame (sys.getrecursionlimit(), as CPython
\* starts with).  restore is recursive: every call of _restore_aux and of
\* _restore_current stays on the stack until the last one returns.
RecursionLimit == 1000

\* The frames "".join(m.mark for m in marks) needs above the frame that
\* evaluates it: the call of join and the generator it runs.
JoinFrames == 2

(***************************************************************************)
(* The marks setter.                                                       *)
(***************************************************************************)
\* The characters re.escape puts a backslash before (those the model's
\* configuration strings can hold).
ReSpecial == {"(", ")", "[", "]", "{", "}", "?", "*", "+", "-", "|", "^", "$",
              "\\", ".", "&", "~", "#", " ", "\t", "\n", "\r"}

\* re.escape(s)
RECURSIVE ReEscape(_)
ReEscape(s) ==
  IF s = <<>> THEN <<>>
  ELSE (IF Head(s) \in ReSpecial THEN <<"\\", Head(s)>> ELSE <<Head(s)>>)
       \o ReEscape(Tail(s))

\* The pattern of the setter's f-string, around the escaped marks.
PatternPrefix == <<"(", "\\", "s", "*", "[">>
PatternSuffix == <<"]", "+", "\\", "s", "*", ")", "+">>
Pattern(marks) == PatternPrefix \o ReEscape(marks) \o PatternSuffix

\* re.compile's reading of a character class from position i of the pattern,
\* set being the characters read so far: a "]" closes the class unless it is
\* its first item, a backslash makes the next character an item (\s being the
\* whitespace class), any other character is an item, and the end of the pattern
\* inside the class is the error "unterminated character set".  The setter's
\* patterns hold no unescaped "^" or "-", so negation and ranges do not occur.
\* The result is [ok, chars, next]: next is the position after the closing "]".
RECURSIVE ParseSet(_, _, _)
ParseSet(src, i, set) ==
  IF i > Len(src) THEN [ok |-> FALSE, chars |-> set, next |-> i]
  ELSE IF src[i] = "]" /\ set # {} THEN [ok |-> TRUE, chars |-> set, next |-> i + 1]
  ELSE IF src[i] = "\\"
       THEN IF i + 1 > Len(src) THEN [ok |-> FALSE, chars |-> set, next |-> i]
            ELSE IF src[i + 1] = "s" THEN ParseSet(src, i + 2, set \cup Whitespace)
            ELSE ParseSet(src, i + 2, set \cup {src[i + 1]})
  ELSE ParseSet(src, i + 1, set \cup {src[i]})

\* re.compile(pattern) for a pattern of the setter: [ok, chars], the class of
\* the compiled rule, ok being FALSE when re.error is raised.  After the class
\* the setter's pattern ends with +\s*)+ .
Compile(pattern) ==
  LET r == ParseSet(pattern, Len(PatternPrefix) + 1, {})
  IN [ok |-> r.ok /\ SubSeq(pattern, r.next, Len(pattern)) = Tail(PatternSuffix),
      chars |-> r.chars]

\* set(value)
CharsOf(s) == {s[i] : i \in 1..Len(s)}

\* The strings "".join(S) can give for a set S: its elements once each, in the
\* order the set happens to iterate in.
Orderings(S) ==
  {s \in [1..Cardinality(S) -> S] : \A i, j \in 1..Cardinality(S) : i # j => s[i] # s[j]}

\* A str the constructor can be called with to configure the marks of the set
\* S: its characters, once each.
MarksArg(S) == CHOOSE s \in Orderings(S) : TRUE

\* isinstance(value, str), a value being [kind |-> "str", val |-> characters]
\* or [kind |-> "NoneType"] or [kind |-> "int", val |-> number].
IsStr(value) == value.kind = "str"

(***************************************************************************)
(* State.                                                                  *)
(***************************************************************************)
VARIABLES
  marks,            \* self._marks: the stored marks, a str
  marks_re,         \* self._marks_re: the class of the compiled rule
  lastValue,        \* the value of the last call of the setter
  lastOk,           \* the str of the last call of the setter that returned
  outcome,          \* how the last call of the setter ended
  pc,               \* where the caller is
  text,             \* preserve: the lines given
  num,              \* preserve: the index of the next line of the loop
  preserved_text,   \* preserve: its local list of chunks
  preserved_marks,  \* preserve: its local list of mark records
  contrib,          \* per line, the number of non-empty chunks it added
  chunks,           \* the caller's list of chunks: the one preserve returned,
                    \* and the one restore is given as its text
  records,          \* the mark records given to restore
  rtext,            \* _restore_aux: its argument text
  rmarks,           \* _restore_aux: its argument marks
  rnum,             \* _restore_aux: its argument num
  out,              \* the output lines returned so far by the enclosing calls
  prev,             \* text, marks, num and out before the last step of restore
  last,             \* the branch the last step of restore took
  steps,            \* the number of recursive calls of _restore_aux so far
  shared,           \* _restore_aux: its text is the caller's list itself
  callerDepth,      \* the depth of the call stack in the caller of preserve
                    \* and restore
  frames,           \* the frames restore has put on the call stack
  arg,              \* remove: the text first given
  removed,          \* remove: the last result (arg before the first call)
  prevRemoved,      \* remove: the result before the last call
  applied           \* remove: the number of calls so far

cfgVars == <<marks, marks_re, lastValue, lastOk, outcome>>
presVars == <<text, num, preserved_text, preserved_marks, contrib>>
argVars == <<chunks, records>>
restVars == <<rtext, rmarks, rnum, out, prev, last, steps, shared, callerDepth, frames>>
remVars == <<arg, removed, prevRemoved, applied>>
vars == <<cfgVars, pc, presVars, argVars, restVars, remVars>>

(***************************************************************************)
(* Inputs.                                                                 *)
(***************************************************************************)
\* The lines of at most n characters of the alphabet.
Lines(n) == UNION {[1..k -> Alphabet] : k \in 0..n}

\* The texts (lists of lines) of size at most n.
LineSeqs[n \in 0..MaxSize] ==
  {<<>>} \cup
  (IF n = 0 THEN {}
   ELSE UNION {{<<l>> \o rest : rest \in LineSeqs[n - Len(l) - 1]} : l \in Lines(n - 1)})

\* Example lines: those of the documentation, a line where two protected
\* commas share a digit, and a line that starts with a mark, holds one and ends
\* with one.
Hello == <<"h", "e", "l", "l", "o", ",", " ", "m", "y", " ", "w", "o", "r", "l", "d", "!">>
Pi == <<"3", ",", "1", "4", " ", "i", "s", " ", "p", "i", ".">>
Version == <<"1", ",", "2", ",", "3">>
Bangs == <<"!", "!", "!">>
NoMarksHere == <<"n", "o", " ", "m", "a", "r", "k", "s", " ", "h", "e", "r", "e">>
Wow == <<"w", "o", "w", "!">>
Framed == <<",", "a", ".", " ", "a", ",">>
Examples ==
  {[marks |-> {",", "!"}, text |-> <<Hello>>],
   [marks |-> {",", "."}, text |-> <<Pi>>],
   [marks |-> {",", "."}, text |-> <<Version>>],
   [marks |-> {",", "."}, text |-> <<Framed>>],
   [marks |-> {"!"}, text |-> <<Bangs>>],
   [marks |-> {"!"}, text |-> <<NoMarksHere, Wow>>]}

\* The configured matchers and texts preserve and remove are called with.
Inputs == [marks : MarkSets, text : LineSeqs[MaxSize]] \cup Examples

\* The depths of the call stack restore can be called at: a call from module
\* level, and calls from so deep that few frames are left.
CallerDepths == {1} \cup {RecursionLimit - k : k \in 0..MaxRoom}

\* The arguments of a direct call of restore: any chunks, any mark records.
ChunkPool == {<<"a">>, <<"a", " ">>, <<>>}
RecordPool ==
  {MarkIndex(i, m, p) : i \in 0..MaxIndex, m \in {<<",">>}, p \in {"B", "E", "I", "A"}}
SeqsUpTo(S, n) == UNION {[1..k -> S] : k \in 0..n}

\* A text of as many chunks as the recursion limit, with one mark record of a
\* line beyond them all.
LongChunks == [i \in 1..RecursionLimit |-> <<"a">>]
LongRecords == <<MarkIndex(2 * RecursionLimit, <<",">>, "I")>>

\* The values the marks setter is called with.
CfgAlphabet == {",", "]", "^", "-", "a"}
CfgValues ==
  {[kind |-> "str", val |-> v] : v \in SeqsUpTo(CfgAlphabet, MaxCfgLen)}
  \cup {[kind |-> "NoneType"], [kind |-> "int", val |-> 5]}

(***************************************************************************)
(* Initial states.                                                         *)
(***************************************************************************)
NoStep == [text |-> <<>>, marks |-> <<>>, num |-> 0, out |-> <<>>]

\* A matcher constructed with the marks of the set M: the stored str holds them
\* in the order set(value) happens to iterate in, which is any order.
Configured(M) ==
  /\ marks \in Orderings(M)
  /\ marks_re = M
  /\ lastValue = [kind |-> "str", val |-> MarksArg(M)]
  /\ lastOk = MarksArg(M)
  /\ outcome = "ok"

PreserveIdle ==
  /\ text = <<>> /\ num = 0 /\ preserved_text = <<>> /\ preserved_marks = <<>>
  /\ contrib = <<>>
RestoreIdle ==
  /\ rtext = <<>> /\ rmarks = <<>> /\ rnum = 0 /\ out = <<>>
  /\ prev = NoStep /\ last = "none" /\ steps = 0 /\ shared = FALSE
  /\ frames = 0
RemoveIdle ==
  /\ arg = [kind |-> "list", val |-> <<>>] /\ removed = arg /\ prevRemoved = arg
  /\ applied = 0

\* A configured matcher and a text, preserve about to be called from module
\* level, where restore is called afterwards.
Init ==
  \E inp \in Inputs :
    /\ Configured(inp.marks)
    /\ pc = "preserve"
    /\ text = inp.text /\ num = 0 /\ preserved_text = <<>> /\ preserved_marks = <<>>
    /\ contrib = <<>>
    /\ chunks = <<>> /\ records = <<>>
    /\ RestoreIdle /\ RemoveIdle
    /\ callerDepth = 1

\* restore about to be called with any chunks and any mark records, from any
\* depth, or from module level with the long text.
InitRestore ==
  /\ Configured({","})
  /\ pc = "preserved"
  /\ PreserveIdle
  /\ \/ /\ chunks \in SeqsUpTo(ChunkPool, MaxChunks)
        /\ records \in SeqsUpTo(RecordPool, MaxMarks)
        /\ callerDepth \in CallerDepths
     \/ /\ chunks = LongChunks
        /\ records = LongRecords
        /\ callerDepth = 1
  /\ RestoreIdle /\ RemoveIdle

\* A configured matcher, remove about to be called with a str or a list.
InitRemove ==
  \E inp \in Inputs :
    /\ Configured(inp.marks)
    /\ pc = "remove"
    /\ PreserveIdle /\ chunks = <<>> /\ records = <<>> /\ RestoreIdle
    /\ callerDepth = 1
    /\ arg \in {[kind |-> "list", val |-> inp.text]}
                \cup {[kind |-> "str", val |-> inp.text[i]] : i \in 1..Len(inp.text)}
    /\ removed = arg /\ prevRemoved = arg /\ applied = 0

\* A matcher whose construction returned, the setter about to be called again.
InitConfig ==
  /\ \E value \in CfgValues :
       /\ IsStr(value)
       /\ \E m \in Orderings(CharsOf(value.val)) :
            /\ Compile(Pattern(m)).ok
            /\ marks = m
            /\ marks_re = Compile(Pattern(m)).chars
       /\ lastValue = value /\ lastOk = value.val /\ outcome = "ok"
  /\ pc = "configure"
  /\ PreserveIdle /\ chunks = <<>> /\ records = <<>> /\ RestoreIdle /\ RemoveIdle
  /\ callerDepth = 1

(***************************************************************************)
(* The marks setter.                                                       *)
(***************************************************************************)
\* The setter called with a value that is not a str: ValueError is raised before
\* anything is assigned.
SetMarksNotStr ==
  /\ pc = "configure"
  /\ \E value \in CfgValues :
       /\ ~IsStr(value)
       /\ lastValue' = value
       /\ outcome' = "ValueError"
  /\ UNCHANGED <<marks, marks_re, lastOk, pc, presVars, argVars, restVars, remVars>>

\* The setter called with a str whose pattern compiles: both fields assigned.
SetMarksOk ==
  /\ pc = "configure"
  /\ \E value \in CfgValues :
       /\ IsStr(value)
       /\ \E m \in Orderings(CharsOf(value.val)) :
            /\ Compile(Pattern(m)).ok
            /\ marks' = m
            /\ marks_re' = Compile(Pattern(m)).chars
       /\ lastValue' = value
       /\ lastOk' = value.val
       /\ outcome' = "ok"
  /\ UNCHANGED <<pc, presVars, argVars, restVars, remVars>>

\* The setter called with a str whose pattern does not compile: self._marks is
\* assigned, then re.compile raises re.error and self._marks_re keeps its value.
SetMarksError ==
  /\ pc = "configure"
  /\ \E value \in CfgValues :
       /\ IsStr(value)
       /\ \E m \in Orderings(CharsOf(value.val)) :
            /\ ~Compile(Pattern(m)).ok
            /\ marks' = m
       /\ lastValue' = value
       /\ outcome' = "re.error"
  /\ UNCHANGED <<marks_re, lastOk, pc, presVars, argVars, restVars, remVars>>

(***************************************************************************)
(* remove.                                                                 *)
(***************************************************************************)
\* remove called on the text, then on its own result.
Remove ==
  /\ pc = "remove"
  /\ applied < MaxApply
  /\ prevRemoved' = removed
  /\ removed' = remove(removed, marks_re)
  /\ applied' = applied + 1
  /\ UNCHANGED <<cfgVars, pc, presVars, argVars, restVars, arg>>

(***************************************************************************)
(* preserve.                                                               *)
(***************************************************************************)
\* One turn of the loop of preserve over enumerate(text).
PreserveLine ==
  /\ pc = "preserve"
  /\ num < Len(text)
  /\ LET r == preserve_line(text[num + 1], num, marks_re)
     IN /\ preserved_text' = preserved_text \o r.text
        /\ preserved_marks' = preserved_marks \o r.marks
        /\ contrib' = Append(contrib, Len(NonEmpty(r.text)))
  /\ num' = num + 1
  /\ UNCHANGED <<cfgVars, pc, text, argVars, restVars, remVars>>

\* The return of preserve: the non-empty chunks and the mark records, which the
\* caller keeps to give them to restore.
PreserveReturn ==
  /\ pc = "preserve"
  /\ num = Len(text)
  /\ chunks' = NonEmpty(preserved_text)
  /\ records' = preserved_marks
  /\ pc' = "preserved"
  /\ UNCHANGED <<cfgVars, presVars, restVars, remVars>>

(***************************************************************************)
(* restore.                                                                *)
(***************************************************************************)
Here == [text |-> rtext, marks |-> rmarks, num |-> rnum, out |-> out]

\* The depth of the call stack: the frame of the call of _restore_aux at hand
\* is the top one.
Depth == callerDepth + frames

\* RecursionError leaves every call of restore: no line is returned.
Raised ==
  /\ pc' = "RecursionError"
  /\ out' = <<>>
  /\ prev' = Here /\ last' = "RecursionError"
  /\ UNCHANGED <<rtext, rmarks, rnum, steps, shared, frames>>

\* restore(text, marks): the first call of _restore_aux, with num = 0.  Its
\* text is the list the caller gave, not a copy of it.  The frames of restore
\* and of _restore_aux go on the stack; where the stack has no room for them,
\* RecursionError is raised.  Where it has room for just these, the frame of
\* str2list, which restore calls first, fills the stack as well, and the call
\* of a builtin on a full stack raises RecursionError unless the interpreter
\* has specialised the call.
Restore ==
  /\ pc = "preserved"
  /\ \E raises \in IF callerDepth + 2 > RecursionLimit THEN {TRUE}
                   ELSE IF callerDepth + 2 = RecursionLimit THEN {TRUE, FALSE}
                   ELSE {FALSE} :
       IF raises
       THEN /\ pc' = "RecursionError"
            /\ last' = "RecursionError"
            /\ UNCHANGED <<rtext, rmarks, rnum, out, shared, frames>>
       ELSE /\ rtext' = chunks
            /\ rmarks' = records
            /\ rnum' = 0
            /\ out' = <<>>
            /\ shared' = TRUE
            /\ frames' = 2
            /\ pc' = "restore"
            /\ UNCHANGED last
  /\ UNCHANGED <<cfgVars, presVars, argVars, prev, steps, callerDepth, remVars>>

\* _restore_aux with no mark left: the remaining text is returned.
RestoreNoMarks ==
  /\ pc = "restore"
  /\ rmarks = <<>>
  /\ out' = out \o rtext
  /\ pc' = "done"
  /\ prev' = Here /\ last' = "no marks"
  /\ UNCHANGED <<cfgVars, presVars, argVars, rtext, rmarks, rnum, steps, shared,
                 callerDepth, frames, remVars>>

\* _restore_aux with marks left and no text: the marks joined are one line,
\* unless the stack has no room for the join.
RestoreNoText ==
  /\ pc = "restore"
  /\ rmarks # <<>>
  /\ rtext = <<>>
  /\ IF Depth + JoinFrames <= RecursionLimit
     THEN /\ out' = Append(out, JoinMarks(rmarks))
          /\ pc' = "done"
          /\ prev' = Here /\ last' = "no text"
          /\ UNCHANGED <<rtext, rmarks, rnum, steps, shared, frames>>
     ELSE Raised
  /\ UNCHANGED <<cfgVars, presVars, argVars, callerDepth, remVars>>

\* _restore_aux whose current mark belongs to a later line: the first chunk is
\* a line of its own, and the rest of the text a new list, given to one more
\* call of _restore_aux, unless the stack has no room for its frame.
RestoreSkip ==
  /\ pc = "restore"
  /\ rmarks # <<>>
  /\ rtext # <<>>
  /\ rmarks[1].index # rnum
  /\ IF Depth + 1 <= RecursionLimit
     THEN /\ out' = Append(out, rtext[1])
          /\ rtext' = Tail(rtext)
          /\ rnum' = rnum + 1
          /\ prev' = Here /\ last' = "skip"
          /\ steps' = steps + 1
          /\ shared' = FALSE
          /\ frames' = frames + 1
          /\ UNCHANGED <<pc, rmarks>>
     ELSE Raised
  /\ UNCHANGED <<cfgVars, presVars, argVars, callerDepth, remVars>>

\* _restore_aux whose current mark belongs to this line, and the branch of
\* _restore_current its position selects.  _restore_current first assigns the
\* trimmed first chunk to text[0]: when text is the caller's list, the caller's
\* list changes.  The Alone branch passes its text on as it is, the other
\* branches pass a new list.  The frames of _restore_current and of the call of
\* _restore_aux it ends with go on the stack.  Where the stack has no room for
\* both, RecursionError is raised: with no room for _restore_current, by its
\* call; with room for it alone, by the call of _restore_aux it ends with,
\* after the assignment to text[0], or before the assignment by the call of
\* rstrip, a call of a builtin on a full stack, unless the interpreter has
\* specialised that call.
Place(branch) ==
  /\ pc = "restore"
  /\ rmarks # <<>>
  /\ rtext # <<>>
  /\ rmarks[1].index = rnum
  /\ IF Depth + 2 <= RecursionLimit
     THEN /\ LET r == restore_current(rmarks[1], rtext, rmarks, rnum, out)
             IN /\ rtext' = r.text
                /\ rmarks' = r.marks
                /\ rnum' = r.num
                /\ out' = r.out
          /\ chunks' = IF shared THEN Stripped(chunks) ELSE chunks
          /\ shared' = (shared /\ branch = "A")
          /\ prev' = Here /\ last' = branch
          /\ steps' = steps + 1
          /\ frames' = frames + 2
          /\ UNCHANGED pc
     ELSE /\ chunks' \in IF Depth + 1 = RecursionLimit
                         THEN {chunks, IF shared THEN Stripped(chunks) ELSE chunks}
                         ELSE {chunks}
          /\ Raised
  /\ UNCHANGED <<cfgVars, presVars, records, callerDepth, remVars>>

RestoreBegin == rmarks # <<>> /\ rmarks[1].position = "B" /\ Place("B")
RestoreEnd == rmarks # <<>> /\ rmarks[1].position = "E" /\ Place("E")
RestoreAlone == rmarks # <<>> /\ rmarks[1].position = "A" /\ Place("A")
RestoreMiddleLast ==
  /\ rmarks # <<>> /\ rmarks[1].position \notin {"B", "E", "A"}
  /\ Len(rtext) = 1 /\ Place("I last")
RestoreMiddle ==
  /\ rmarks # <<>> /\ rmarks[1].position \notin {"B", "E", "A"}
  /\ Len(rtext) > 1 /\ Place("I")

(***************************************************************************)
(* Specifications.                                                         *)
(***************************************************************************)
NextRestore ==
  \/ Restore
  \/ RestoreNoMarks
  \/ RestoreNoText
  \/ RestoreSkip
  \/ RestoreBegin
  \/ RestoreEnd
  \/ RestoreAlone
  \/ RestoreMiddleLast
  \/ RestoreMiddle

\* preserve on a text, then restore on what it returned, both called from
\* module level.
Next == PreserveLine \/ PreserveReturn \/ NextRestore
Spec == Init /\ [][Next]_vars

\* restore on any arguments.
SpecRestore == InitRestore /\ [][NextRestore]_vars

\* remove, applied again to its result.
NextRemove == Remove
SpecRemove == InitRemove /\ [][NextRemove]_vars

\* The setter called again and again on one matcher.
NextConfig == SetMarksNotStr \/ SetMarksOk \/ SetMarksError
SpecConfig == InitConfig /\ [][NextConfig]_vars

(***************************************************************************)
(* Properties.                                                             *)
(***************************************************************************)
\* preserve has returned, and restore has not been called yet: chunks and
\* records are what preserve returned.
Preserved == pc = "preserved"

\* The mark records of the line of index i, in the order of the records.
RECURSIVE RecordsOf(_, _)
RecordsOf(rs, i) ==
  IF rs = <<>> THEN <<>>
  ELSE IF Head(rs).index = i THEN <<Head(rs)>> \o RecordsOf(Tail(rs), i)
  ELSE RecordsOf(Tail(rs), i)

\* The number of records of rs with position p.
CountPos(rs, p) == Cardinality({k \in 1..Len(rs) : rs[k].position = p})

\* Neither the text nor the configured marks hold a placeholder character.
NoPlaceholder ==
  /\ marks_re \cap {CommaPlaceholder, PeriodPlaceholder} = {}
  /\ \A i \in 1..Len(text) :
       CharsOf(text[i]) \cap {CommaPlaceholder, PeriodPlaceholder} = {}

\* C1: preserve then restore gives back the text: one output line per non-empty
\* input line, in order, each equal to its input line up to trailing whitespace.
\* (Stated for texts and mark sets without the placeholder characters, whose
\* handling is a matter of its own.)
RoundTrip ==
  (pc = "done" /\ NoPlaceholder) =>
    LET want == NonEmpty(text)
    IN /\ Len(out) = Len(want)
       /\ \A i \in 1..Len(want) : rstrip(out[i]) = rstrip(want[i])

\* C2: a text of one non-empty line that holds no configured mark comes back
\* from preserve as its only chunk, with no mark record, and from restore as the
\* line itself up to leading and trailing whitespace.
MarkFreeRoundTrip ==
  (Len(text) = 1 /\ text[1] # <<>> /\ CharsOf(text[1]) \cap marks_re = {}) =>
    /\ Preserved => (chunks = <<text[1]>> /\ records = <<>>)
    /\ pc = "done" => (Len(out) = 1 /\ strip(out[1]) = strip(text[1]))

\* C3: every chunk preserve returns is non-empty, and a configured mark occurs in
\* it only where it stood directly between two digits in a line of the text.
ChunksSafe ==
  Preserved =>
    \A c \in 1..Len(chunks) :
      /\ chunks[c] # <<>>
      /\ \A q \in 1..Len(chunks[c]) :
           chunks[c][q] \in marks_re =>
             /\ 1 < q /\ q < Len(chunks[c])
             /\ chunks[c][q - 1] \in Digits /\ chunks[c][q + 1] \in Digits
             /\ \E i \in 1..Len(text) : \E r \in 2..(Len(text[i]) - 1) :
                  SubSeq(text[i], r - 1, r + 1) = SubSeq(chunks[c], q - 1, q + 1)

\* The positions of a line where a comma or a period stands directly between
\* two digits.
Protected(line) ==
  {q \in 2..(Len(line) - 1) :
     line[q] \in {",", "."} /\ line[q - 1] \in Digits /\ line[q + 1] \in Digits}

\* The stretches [i, j] of a line made of whitespace and of marks at positions
\* outside P, that hold such a mark and cannot be extended.
RunsOutside(line, M, P) ==
  LET in(q) == line[q] \in Whitespace \/ (line[q] \in M /\ q \notin P)
  IN {ij \in (1..Len(line)) \X (1..Len(line)) :
        /\ ij[1] <= ij[2]
        /\ \A q \in ij[1]..ij[2] : in(q)
        /\ \E q \in ij[1]..ij[2] : line[q] \in M /\ q \notin P
        /\ (ij[1] = 1 \/ ~in(ij[1] - 1))
        /\ (ij[2] = Len(line) \/ ~in(ij[2] + 1))}

\* The stretches of a set, from left to right.
RECURSIVE Sorted(_)
Sorted(runs) ==
  IF runs = {} THEN <<>>
  ELSE LET first == CHOOSE r \in runs : \A o \in runs : r[1] <= o[1]
       IN <<first>> \o Sorted(runs \ {first})

\* The texts of the stretches rs of a line, and the non-empty texts between them.
RunTexts(line, rs) == [k \in 1..Len(rs) |-> SubSeq(line, rs[k][1], rs[k][2])]
GapTexts(line, rs) ==
  NonEmpty([k \in 1..(Len(rs) + 1) |->
              SubSeq(line, IF k = 1 THEN 1 ELSE rs[k - 1][2] + 1,
                           IF k = Len(rs) + 1 THEN Len(line) ELSE rs[k][1] - 1)])

\* C4: a comma or a period that stands directly between two digits is never a
\* mark: the records of a text are those of its stretches of unprotected marks,
\* and its chunks are the texts between them, the protected characters
\* unchanged inside.  (Stated for texts and mark sets without the placeholder
\* characters, whose handling is a matter of its own.)
DigitProtection ==
  (Preserved /\ NoPlaceholder) =>
    LET runs(i) == Sorted(RunsOutside(text[i], marks_re, Protected(text[i])))
    IN /\ [k \in 1..Len(records) |-> records[k].mark]
            = Join([i \in 1..Len(text) |-> RunTexts(text[i], runs(i))])
       /\ chunks = Join([i \in 1..Len(text) |-> GapTexts(text[i], runs(i))])

\* The records the claim on positions expects for a line, given as it is after
\* the substitution of the placeholders: one record per stretch of marks, from
\* left to right; a stretch that is the whole line is Alone, otherwise the
\* first stretch is Begin if the line starts with it, the last End if the line
\* ends with it, and any other Middle.
ExpectedRecords(line, idx, M) ==
  LET rs == Sorted(RunsOutside(line, M, {}))
  IN IF rs = <<<<1, Len(line)>>>> THEN <<MarkIndex(idx, line, "A")>>
     ELSE [k \in 1..Len(rs) |->
             MarkIndex(idx, SubSeq(line, rs[k][1], rs[k][2]),
                       IF k = 1 /\ rs[k][1] = 1 THEN "B"
                       ELSE IF k = Len(rs) /\ rs[k][2] = Len(line) THEN "E"
                       ELSE "I")]

\* The general part of the claim on positions, and its part on Alone lines: a
\* line that is one stretch of marks adds no chunk.
PositionsRule ==
  Preserved =>
    /\ records = Join([i \in 1..Len(text) |->
                         ExpectedRecords(Escape(text[i]), i - 1, marks_re)])
    /\ \A i \in 1..Len(text) :
         (\E k \in 1..Len(records) :
            records[k].index = i - 1 /\ records[k].position = "A") => contrib[i] = 0

HelloChunks == <<SubSeq(Hello, 1, 5), SubSeq(Hello, 8, 15)>>
IsHello == text = <<Hello>> /\ marks_re = {",", "!"}

\* C5 as stated: the rule on positions, and for "hello, my world!" the records
\* (0, ",", Middle) and (0, "!", End).
PositionalClassificationAsStated ==
  /\ PositionsRule
  /\ (IsHello /\ Preserved) =>
       /\ chunks = HelloChunks
       /\ records = <<MarkIndex(0, <<",">>, "I"), MarkIndex(0, <<"!">>, "E")>>
  /\ (IsHello /\ pc = "done") => out = <<Hello>>

\* C5 as amended: the rule on positions, and for "hello, my world!" the records
\* (0, ", ", Middle), the space after the comma being part of the mark's text,
\* and (0, "!", End); restore on the chunks and these records gives the line.
PositionalClassification ==
  /\ PositionsRule
  /\ (IsHello /\ Preserved) =>
       /\ chunks = HelloChunks
       /\ records = <<MarkIndex(0, <<",", " ">>, "I"), MarkIndex(0, <<"!">>, "E")>>
  /\ (IsHello /\ pc = "done") => out = <<Hello>>

\* The example of C5 has gone through preserve and restore.
PositionalClassificationWitness ==
  IsHello /\ pc = "done" /\ Len(records) = 2 /\ out = text

\* C6: a call of the setter with a str returns, a call with anything else raises
\* ValueError; the stored marks and the compiled rule are those of the last str
\* the setter returned for.
ConfigurationAtomic ==
  /\ IsStr(lastValue) <=> outcome = "ok"
  /\ ~IsStr(lastValue) <=> outcome = "ValueError"
  /\ CharsOf(marks) = CharsOf(lastOk)
  /\ Len(marks) = Cardinality(CharsOf(lastOk))
  /\ marks_re = CharsOf(lastOk)

\* The lines of a result of remove.
LinesOf(t) == IF t.kind = "str" THEN {t.val} ELSE {t.val[i] : i \in 1..Len(t.val)}

\* The result of remove holds none of the marks of the set M and neither starts
\* nor ends with whitespace, and remove on it gave it back.
RemoveClean(M) ==
  /\ applied >= 1 =>
       \A l \in LinesOf(removed) : CharsOf(l) \cap M = {} /\ strip(l) = l
  /\ applied >= 2 => removed = prevRemoved

\* C7 as stated: remove applied twice equals remove applied once, and its result
\* holds no configured mark and no leading or trailing whitespace.
RemoveIdempotentAsStated == RemoveClean(marks_re)

\* C7 as amended: remove applied twice equals remove applied once, and its
\* result holds no configured mark other than whitespace and no leading or
\* trailing whitespace.
RemoveIdempotent == RemoveClean(marks_re \ Whitespace)

\* remove has been applied twice to a list of two lines it changed.
RemoveIdempotentWitness ==
  /\ applied = 2 /\ arg.kind = "list" /\ Len(arg.val) = 2
  /\ prevRemoved # arg /\ removed = prevRemoved
  /\ \E i \in 1..2 : CharsOf(arg.val[i]) \cap (marks_re \ Whitespace) # {}

\* The measure that decreases along restore.
Measure(st) == Len(st.text) + Len(st.marks)

\* C8: every recursive call of _restore_aux has strictly less chunks and marks
\* left than its caller and a num that is not smaller, and on any arguments
\* restore goes on until one of its two terminal cases returns, after at most
\* len(chunks) + len(marks) recursive calls: it never ends in another way.
RestoreTerminates ==
  /\ last \in {"skip", "B", "E", "A", "I", "I last"} =>
       Measure(Here) < Measure(prev) /\ rnum >= prev.num
  /\ pc \in {"restore", "done"} =>
       steps + Measure(Here) <= Len(chunks) + Len(records)
  /\ pc = "restore" => ENABLED NextRestore
  /\ pc # "RecursionError"

\* C9: the Alone branch gives the mark as one output line, adds 1 to num, takes
\* the mark off the marks and leaves the chunks as they are, in the text it
\* passes on and in the caller's list when that is the text.
AloneLeavesChunks ==
  last = "A" =>
    /\ out = Append(prev.out, prev.marks[1].mark)
    /\ rnum = prev.num + 1
    /\ rmarks = Tail(prev.marks)
    /\ rtext = prev.text
    /\ shared => chunks = prev.text

\* The texts ms occur in the line from position i on, in this order and without
\* overlapping.
RECURSIVE InOrder(_, _, _)
InOrder(line, ms, i) ==
  \/ ms = <<>>
  \/ \E q \in i..(Len(line) - Len(Head(ms)) + 1) :
       /\ SubSeq(line, q, q + Len(Head(ms)) - 1) = Head(ms)
       /\ InOrder(line, Tail(ms), q + Len(Head(ms)))

\* C10: the records preserve returns are ordered by line index and, within a
\* line, from left to right; a line has at most one Begin record, its first, at
\* most one End record, its last, and an Alone record is alone; a line with
\* records and no Alone adds as many chunks as it has records, plus one, minus
\* one for a Begin and minus one for an End.
RecordsWellFormed ==
  Preserved =>
    /\ \A k \in 1..(Len(records) - 1) : records[k].index <= records[k + 1].index
    /\ \A k \in 1..Len(records) : records[k].index \in 0..(Len(text) - 1)
    /\ \A i \in 1..Len(text) :
         LET rs == RecordsOf(records, i - 1)
             b == CountPos(rs, "B")
             e == CountPos(rs, "E")
         IN /\ InOrder(Escape(text[i]), [k \in 1..Len(rs) |-> rs[k].mark], 1)
            /\ b <= 1 /\ (b = 1 => rs[1].position = "B")
            /\ e <= 1 /\ (e = 1 => rs[Len(rs)].position = "E")
            /\ CountPos(rs, "A") >= 1 => Len(rs) = 1
            /\ (rs # <<>> /\ CountPos(rs, "A") = 0) => contrib[i] = Len(rs) + 1 - b - e

\* preserve has returned for a text whose second line starts and ends with a
\* mark.
RecordsWellFormedWitness ==
  /\ pc = "preserved" /\ Len(text) = 2
  /\ \E k \in 1..(Len(records) - 1) :
       /\ records[k].index = 1 /\ records[k].position = "B"
       /\ records[k + 1].index = 1 /\ records[k + 1].position = "E"
  /\ contrib[2] = 1

====
